---- MODULE Spec2Model ----
(***************************************************************************)
(* Model of mistral/engine/engine_server.py: the EngineServer service.     *)
(*                                                                         *)
(* EngineServer owns three handles (_scheduler, _expiration_policy_tg,     *)
(* _rpc_server), brings its collaborators up in start(), tears them down   *)
(* in stop(graceful), and is registered as the RPC endpoint whose methods  *)
(* forward every call to the engine.                                       *)
(*                                                                         *)
(* The collaborators (db_api, scheduler, expiration_policy, the RPC server *)
(* driver, MistralService, wf_utils.Result and the engine) are not part of *)
(* engine_server.py; they are modelled by their contract.                  *)
(***************************************************************************)
EXTENDS Naturals, Sequences, FiniteSets, TLC

VARIABLES
    _scheduler,             \* self._scheduler
    _expiration_policy_tg,  \* self._expiration_policy_tg
    _rpc_server,            \* self._rpc_server
    _setup_profiler,        \* self._setup_profiler (constructor argument)
    engine,                 \* self.engine (constructor argument)
    cluster_member,         \* cluster membership registered for this service
    startStatus,            \* start(): "new", "running", "returned", "raised"
    startPc,                \* index in StartOrder of the statement start() is at
    startLog,               \* statements of start() that completed, in order
    startFault,             \* statement of start() at which a collaborator raised
    schedulerState,         \* delayed-call scheduler: "absent", "running", "stopped"
    expirationState,        \* expiration sweep: "absent", "running", "stopped"
    rpcState,               \* RPC server: "absent", "created", "serving", "stopped"
    endpoints,              \* endpoints registered with the RPC server
    notified,               \* number of 'started' notifications emitted
    stopPc,                 \* stop(): "idle", "super_stop", "steps", "returned", "raised"
    stopIdx,                \* index in StopOrder of the statement stop() is at
    graceful,               \* argument of the stop() call in progress
    stopLog,                \* subsystem stop operations invoked by this stop()
    stopCount,              \* number of stop() calls made
    afterStop,              \* handles and subsystem states when the last stop() returned
    pending,                \* calls waiting in the server's queue
    issued,                 \* number of calls issued by clients
    inflight,               \* calls whose handler is running
    lastReply,              \* outcome of the last completed call
    wfState,                \* state of workflow execution ex-1 in the store
    actionState,            \* state of action execution a-1 in the store
    wfHistory               \* states ex-1 has moved through, in order

vars == <<_scheduler, _expiration_policy_tg, _rpc_server, _setup_profiler,
          engine, cluster_member, startStatus, startPc, startLog, startFault,
          schedulerState, expirationState,
          rpcState, endpoints, notified, stopPc, stopIdx, graceful, stopLog,
          stopCount, afterStop, pending, issued, inflight, lastReply,
          wfState, actionState, wfHistory>>

lifecycleVars == <<_scheduler, _expiration_policy_tg, _rpc_server,
                   _setup_profiler, engine, cluster_member, startStatus, startPc,
                   startLog, startFault,
                   schedulerState, expirationState, rpcState, endpoints,
                   notified, stopPc, stopIdx, graceful, stopLog, stopCount,
                   afterStop>>

startVars == <<startStatus, startPc, startLog, startFault>>
stopVars == <<stopPc, stopIdx, graceful, stopLog, stopCount, afterStop>>
handleVars == <<_scheduler, _expiration_policy_tg, _rpc_server>>
configVars == <<_setup_profiler, engine>>
selfVars == <<engine, _scheduler, _expiration_policy_tg, _rpc_server, cluster_member>>
runVars == <<_setup_profiler, startVars, schedulerState, expirationState,
             rpcState, endpoints, notified, stopVars>>
storeVars == <<wfState, actionState, wfHistory>>
rpcVars == <<pending, issued, inflight, lastReply, storeVars>>

(***************************************************************************)
(* Bounds.                                                                 *)
(***************************************************************************)
MaxCalls == 2       \* calls issued by clients in one run
MaxStops == 2       \* stop() calls in one run
MaxScenarioCalls == 6   \* calls issued by the client of the state-machine scenario

None == "None"

(***************************************************************************)
(* RPC handlers.  Each handler writes one log record and then invokes the  *)
(* engine method; an engine invocation is the record                       *)
(*   [method, args (positional), kwargs (keyword)].                        *)
(***************************************************************************)
EmptyMap == [k \in {} |-> None]

\* A plausible slip: the two raw fields are stored as given.
ResultAsGiven(data, error) ==
    [tag |-> IF error # None THEN "failure" ELSE "success",
     data |-> data, error |-> error]

\* wf_utils.Result(data, error), by its contract: a value that is either a
\* success carrying the data or a failure carrying the error.  An explicit
\* error takes precedence over data given with it; with no error the value
\* is a success, its data possibly none.
Result(data, error) ==
    IF error # None
       THEN [tag |-> "failure", data |-> None, error |-> error]
       ELSE [tag |-> "success", data |-> data, error |-> None]

start_workflow(rpc_ctx, workflow_identifier, workflow_input, description, params) ==
    [log  |-> <<"start_workflow", rpc_ctx, workflow_identifier, workflow_input,
                description, params>>,
     call |-> [method |-> "start_workflow",
               args   |-> <<workflow_identifier, workflow_input, description>>,
               kwargs |-> params]]

start_action(rpc_ctx, action_name, action_input, description, params) ==
    [log  |-> <<"start_action", rpc_ctx, action_name, action_input,
                description, params>>,
     call |-> [method |-> "start_action",
               args   |-> <<action_name, action_input, description>>,
               kwargs |-> params]]

\* A plausible slip: every completion is reported as one of a primitive action.
on_action_complete_primitive(rpc_ctx, action_ex_id, result_data, result_error, wf_action) ==
    LET result == Result(result_data, result_error) IN
    [log  |-> <<"on_action_complete", rpc_ctx, action_ex_id, result>>,
     call |-> [method |-> "on_action_complete",
               args   |-> <<action_ex_id, result, "False">>,
               kwargs |-> EmptyMap]]

on_action_complete(rpc_ctx, action_ex_id, result_data, result_error, wf_action) ==
    LET result == Result(result_data, result_error) IN
    [log  |-> <<"on_action_complete", rpc_ctx, action_ex_id, result>>,
     call |-> [method |-> "on_action_complete",
               args   |-> <<action_ex_id, result, wf_action>>,
               kwargs |-> EmptyMap]]

\* A plausible slip: the handler invokes the engine method of its neighbour.
pause_workflow_resumes(rpc_ctx, execution_id) ==
    [log  |-> <<"pause_workflow", rpc_ctx, execution_id>>,
     call |-> [method |-> "resume_workflow",
               args   |-> <<execution_id, None>>,
               kwargs |-> EmptyMap]]

pause_workflow(rpc_ctx, execution_id) ==
    [log  |-> <<"pause_workflow", rpc_ctx, execution_id>>,
     call |-> [method |-> "pause_workflow",
               args   |-> <<execution_id>>,
               kwargs |-> EmptyMap]]

\* A plausible slip: the reset flag is not forwarded.
rerun_workflow_drops_reset(rpc_ctx, task_ex_id, reset, env) ==
    [log  |-> <<"rerun_workflow", rpc_ctx, task_ex_id>>,
     call |-> [method |-> "rerun_workflow",
               args   |-> <<task_ex_id, "True", env>>,
               kwargs |-> EmptyMap]]

rerun_workflow(rpc_ctx, task_ex_id, reset, env) ==
    [log  |-> <<"rerun_workflow", rpc_ctx, task_ex_id>>,
     call |-> [method |-> "rerun_workflow",
               args   |-> <<task_ex_id, reset, env>>,
               kwargs |-> EmptyMap]]

resume_workflow(rpc_ctx, wf_ex_id, env) ==
    [log  |-> <<"resume_workflow", rpc_ctx, wf_ex_id>>,
     call |-> [method |-> "resume_workflow",
               args   |-> <<wf_ex_id, env>>,
               kwargs |-> EmptyMap]]

stop_workflow(rpc_ctx, execution_id, state, message) ==
    [log  |-> <<"stop_workflow", rpc_ctx, execution_id, state, message>>,
     call |-> [method |-> "stop_workflow",
               args   |-> <<execution_id, state, message>>,
               kwargs |-> EmptyMap]]

rollback_workflow(rpc_ctx, execution_id) ==
    [log  |-> <<"rollback_workflow", rpc_ctx, execution_id>>,
     call |-> [method |-> "rollback_workflow",
               args   |-> <<execution_id>>,
               kwargs |-> EmptyMap]]

\* Python binding of a call's keyword arguments to a handler's parameters:
\* an omitted optional argument takes the default of the def line.
Arg(kw, name, default) == IF name \in DOMAIN kw THEN kw[name] ELSE default

\* The endpoint method the RPC server calls for request req = [op, kwargs].
Endpoint(rpc_ctx, req) ==
    LET kw == req.kwargs IN
    CASE req.op = "start_workflow" ->
            start_workflow(rpc_ctx, kw["workflow_identifier"],
                           kw["workflow_input"], kw["description"], kw["params"])
      [] req.op = "start_action" ->
            start_action(rpc_ctx, kw["action_name"], kw["action_input"],
                         kw["description"], kw["params"])
      [] req.op = "on_action_complete" ->
            on_action_complete(rpc_ctx, kw["action_ex_id"], kw["result_data"],
                               kw["result_error"], kw["wf_action"])
      [] req.op = "pause_workflow" ->
            pause_workflow(rpc_ctx, kw["execution_id"])
      [] req.op = "rerun_workflow" ->
            rerun_workflow(rpc_ctx, kw["task_ex_id"],
                           Arg(kw, "reset", "True"), Arg(kw, "env", None))
      [] req.op = "resume_workflow" ->
            resume_workflow(rpc_ctx, kw["wf_ex_id"], Arg(kw, "env", None))
      [] req.op = "stop_workflow" ->
            stop_workflow(rpc_ctx, kw["execution_id"], kw["state"],
                          Arg(kw, "message", None))
      [] req.op = "rollback_workflow" ->
            rollback_workflow(rpc_ctx, kw["execution_id"])

(***************************************************************************)
(* The calls clients make: operation name and keyword arguments, the       *)
(* request context travelling separately.  Values are strings; "None",     *)
(* "True" and "False" stand for the Python constants.                      *)
(***************************************************************************)
Ctx == "ctx"

Kw1(a, x) == a :> x
Kw2(a, x, b, y) == (a :> x) @@ (b :> y)
Kw3(a, x, b, y, c, z) == (a :> x) @@ (b :> y) @@ (c :> z)
Kw4(a, x, b, y, c, z, d, w) == (a :> x) @@ (b :> y) @@ (c :> z) @@ (d :> w)

CompleteReq(data, error, wf) ==
    [op |-> "on_action_complete",
     kwargs |-> Kw4("action_ex_id", "a-1", "result_data", data,
                    "result_error", error, "wf_action", wf)]

StopReq(state) ==
    [op |-> "stop_workflow",
     kwargs |-> Kw3("execution_id", "ex-1", "state", state, "message", "boom")]

Requests ==
    << [op |-> "start_workflow",
        kwargs |-> Kw4("workflow_identifier", "wf-1", "workflow_input", "in",
                       "description", "desc", "params", EmptyMap)],
       [op |-> "start_workflow",
        kwargs |-> Kw4("workflow_identifier", "wf-1", "workflow_input", "in",
                       "description", "desc", "params", Kw1("task_name", "t1"))],
       [op |-> "start_action",
        kwargs |-> Kw4("action_name", "std.echo", "action_input", "in",
                       "description", "desc", "params", Kw1("save_result", "True"))],
       CompleteReq("d", None, "False"),
       CompleteReq(None, "boom", "False"),
       CompleteReq("d", "boom", "False"),
       CompleteReq(None, None, "False"),
       CompleteReq("d", None, "True"),
       [op |-> "pause_workflow", kwargs |-> Kw1("execution_id", "ex-1")],
       [op |-> "rerun_workflow", kwargs |-> Kw1("task_ex_id", "t-1")],
       [op |-> "rerun_workflow",
        kwargs |-> Kw2("task_ex_id", "t-1", "reset", "False")],
       [op |-> "rerun_workflow",
        kwargs |-> Kw3("task_ex_id", "t-1", "reset", "True", "env", "env")],
       [op |-> "resume_workflow", kwargs |-> Kw1("wf_ex_id", "ex-1")],
       [op |-> "resume_workflow",
        kwargs |-> Kw2("wf_ex_id", "ex-1", "env", "env")],
       StopReq("SUCCESS"),
       StopReq("ERROR"),
       StopReq("PAUSED"),
       StopReq("RUNNING"),
       StopReq("CANCELLED"),
       [op |-> "stop_workflow",
        kwargs |-> Kw2("execution_id", "ex-1", "state", "ERROR")],
       [op |-> "rollback_workflow", kwargs |-> Kw1("execution_id", "ex-1")] >>

\* What an engine invocation ends with: a value returned or a fault raised.
\* The value is the execution the operation acted on.
Returned(state, data, error, level) ==
    [kind |-> "return",
     value |-> [state |-> state, data |-> data, error |-> error, level |-> level]]

Fault == [kind |-> "fault", value |-> "EngineFault"]

\* How an invocation whose precondition lies outside the two tracked
\* executions (the state of a task) can end.
EngineOutcomes == << Returned("RUNNING", None, None, "workflow"), Fault >>

\* The state a completion report moves a RUNNING action execution to.
CompletionState(result) == IF result.tag = "failure" THEN "ERROR" ELSE "SUCCESS"

\* The completion handling the is_workflow_action flag selects.
CompletionLevel(wf_action) == IF wf_action = "True" THEN "workflow" ELSE "action"

\* The transition table of the engine: the source states an operation on a
\* workflow execution is legal in.
ValidSource(method) ==
    CASE method = "pause_workflow" -> {"RUNNING"}
      [] method = "resume_workflow" -> {"PAUSED"}
      [] method = "stop_workflow" -> {"RUNNING", "PAUSED"}
      [] method = "rollback_workflow" -> {"ERROR"}

\* The transition table of the engine: the state the operation leaves the
\* execution in.
Resulting(call) ==
    CASE call.method = "pause_workflow" -> "PAUSED"
      [] call.method = "resume_workflow" -> "RUNNING"
      [] call.method = "stop_workflow" -> call.args[2]
      [] call.method = "rollback_workflow" -> "RUNNING"

\* The engine: the outcome of an invocation and the states it leaves
\* workflow execution ex-1 (wf) and action execution a-1 (act) in.  An
\* operation that is illegal in the execution's current state raises a fault
\* and changes nothing.  o is the way a task-scoped invocation ends.
Engine(call, wf, act, o) ==
    LET m == call.method
        refused == [outcome |-> Fault, wf |-> wf, act |-> act] IN
    CASE m = "start_workflow" ->
            [outcome |-> Returned("RUNNING", None, None, "workflow"),
             wf |-> IF wf = "NONE" THEN "RUNNING" ELSE wf, act |-> act]
      [] m = "start_action" ->
            [outcome |-> Returned("RUNNING", None, None, "action"),
             wf |-> wf, act |-> IF act = "NONE" THEN "RUNNING" ELSE act]
      [] m = "on_action_complete" ->
            IF act = "RUNNING"
               THEN LET result == call.args[2] IN
                    [outcome |-> Returned(CompletionState(result), result.data,
                                          result.error, CompletionLevel(call.args[3])),
                     wf |-> wf, act |-> CompletionState(result)]
               ELSE refused
      [] m = "rerun_workflow" ->
            IF o.kind = "return"
               THEN [outcome |-> o, wf |-> IF wf = "NONE" THEN wf ELSE "RUNNING",
                     act |-> act]
               ELSE refused
      [] m \in {"pause_workflow", "resume_workflow", "stop_workflow",
                "rollback_workflow"} ->
            IF wf \in ValidSource(m)
                  /\ (m = "stop_workflow" => call.args[2] \in {"SUCCESS", "ERROR"})
               THEN [outcome |-> Returned(Resulting(call), None, None, "workflow"),
                     wf |-> Resulting(call), act |-> act]
               ELSE refused

(***************************************************************************)
(* start()                                                                 *)
(***************************************************************************)
\* A plausible slip: the server is run before the endpoint is registered.
StartOrderRunFirst ==
    << "super_start", "setup_db", "scheduler_start", "expiration_setup",
       "setup_profiler", "get_rpc_server", "run", "register_endpoint",
       "notify_started" >>

\* A plausible slip: readiness is announced before the blocking run() call.
StartOrderNotifyFirst ==
    << "super_start", "setup_db", "scheduler_start", "expiration_setup",
       "setup_profiler", "get_rpc_server", "register_endpoint",
       "notify_started", "run" >>

\* The statements of start(), in program order.
StartOrder ==
    << "super_start", "setup_db", "scheduler_start", "expiration_setup",
       "setup_profiler", "get_rpc_server", "register_endpoint", "run",
       "notify_started" >>

AtStep(name) ==
    /\ startStatus = "running"
    /\ startPc \in 1..Len(StartOrder)
    /\ StartOrder[startPc] = name

\* The statement completed: control moves to the next one, or start() returns.
Advance(name) ==
    /\ startLog' = Append(startLog, name)
    /\ startPc' = startPc + 1
    /\ startStatus' = IF startPc = Len(StartOrder) THEN "returned" ELSE "running"
    /\ UNCHANGED startFault

\* A plausible slip: the exception is caught and start() goes on with the
\* next statement.
RaiseCaught ==
    /\ startFault' = StartOrder[startPc]
    /\ startPc' = startPc + 1
    /\ startStatus' = IF startPc = Len(StartOrder) THEN "returned" ELSE "running"
    /\ UNCHANGED startLog

\* A plausible slip: a failure of the profiler setup alone is caught.
RaiseUnlessProfiler ==
    /\ startFault' = StartOrder[startPc]
    /\ startPc' = IF StartOrder[startPc] = "setup_profiler" THEN startPc + 1
                                                            ELSE startPc
    /\ startStatus' = IF StartOrder[startPc] = "setup_profiler" THEN "running"
                                                                ELSE "raised"
    /\ UNCHANGED startLog

\* An exception leaves start(): the statements after it do not run.
Raise ==
    /\ startFault' = StartOrder[startPc]
    /\ startStatus' = "raised"
    /\ UNCHANGED <<startPc, startLog>>

\* The service launcher calls start() once, on a service it has not stopped.
Start ==
    /\ startStatus = "new"
    /\ stopCount = 0
    /\ startStatus' = "running"
    /\ startPc' = 1
    /\ UNCHANGED <<startLog, startFault, handleVars, configVars, cluster_member,
                   schedulerState, expirationState, rpcState, endpoints,
                   notified, stopVars, rpcVars>>

\* super(EngineServer, self).start(): registers the cluster membership.
SuperStart ==
    /\ AtStep("super_start")
    /\ cluster_member' = TRUE
    /\ Advance("super_start")
    /\ UNCHANGED <<handleVars, configVars, schedulerState, expirationState,
                   rpcState, endpoints, notified, stopVars, rpcVars>>

\* db_api.setup_db()
SetupDb ==
    /\ AtStep("setup_db")
    /\ Advance("setup_db")
    /\ UNCHANGED <<handleVars, configVars, cluster_member, schedulerState,
                   expirationState, rpcState, endpoints, notified, stopVars,
                   rpcVars>>

\* self._scheduler = scheduler.start()
SchedulerStart ==
    /\ AtStep("scheduler_start")
    /\ _scheduler' = "scheduler"
    /\ schedulerState' = "running"
    /\ Advance("scheduler_start")
    /\ UNCHANGED <<_expiration_policy_tg, _rpc_server, configVars,
                   cluster_member, expirationState, rpcState, endpoints,
                   notified, stopVars, rpcVars>>

\* self._expiration_policy_tg = expiration_policy.setup()
ExpirationSetup ==
    /\ AtStep("expiration_setup")
    /\ _expiration_policy_tg' = "expiration_policy_tg"
    /\ expirationState' = "running"
    /\ Advance("expiration_setup")
    /\ UNCHANGED <<_scheduler, _rpc_server, configVars, cluster_member,
                   schedulerState, rpcState, endpoints, notified, stopVars,
                   rpcVars>>

\* if self._setup_profiler: profiler_utils.setup(...)
SetupProfiler ==
    /\ AtStep("setup_profiler")
    /\ Advance("setup_profiler")
    /\ UNCHANGED <<handleVars, configVars, cluster_member, schedulerState,
                   expirationState, rpcState, endpoints, notified, stopVars,
                   rpcVars>>

\* self._rpc_server = rpc.get_rpc_server_driver()(cfg.CONF.engine)
GetRpcServer ==
    /\ AtStep("get_rpc_server")
    /\ _rpc_server' = "rpc_server"
    /\ rpcState' = "created"
    /\ Advance("get_rpc_server")
    /\ UNCHANGED <<_scheduler, _expiration_policy_tg, configVars,
                   cluster_member, schedulerState, expirationState, endpoints,
                   notified, stopVars, rpcVars>>

\* self._rpc_server.register_endpoint(self)
RegisterEndpoint ==
    /\ AtStep("register_endpoint")
    /\ _rpc_server # None
    /\ endpoints' = endpoints \cup {"EngineServer"}
    /\ Advance("register_endpoint")
    /\ UNCHANGED <<handleVars, configVars, cluster_member, schedulerState,
                   expirationState, rpcState, notified, stopVars, rpcVars>>

\* self._rpc_server.run(executor='blocking'): the server starts serving and
\* the call does not return.
Run ==
    /\ AtStep("run")
    /\ rpcState = "created"
    /\ rpcState' = "serving"
    /\ UNCHANGED <<startVars, handleVars, configVars, cluster_member,
                   schedulerState, expirationState, endpoints, notified,
                   stopVars, rpcVars>>

\* run() returns once the server has been stopped and the handler it was
\* running, if any, has returned.
RunReturns ==
    /\ AtStep("run")
    /\ rpcState = "stopped"
    /\ inflight = <<>>
    /\ Advance("run")
    /\ UNCHANGED <<handleVars, configVars, cluster_member, schedulerState,
                   expirationState, rpcState, endpoints, notified, stopVars,
                   rpcVars>>

\* self._notify_started('Engine server started.')
NotifyStarted ==
    /\ AtStep("notify_started")
    /\ notified' = notified + 1
    /\ Advance("notify_started")
    /\ UNCHANGED <<handleVars, configVars, cluster_member, schedulerState,
                   expirationState, rpcState, endpoints, stopVars, rpcVars>>

\* A collaborator called by start() raises: the exception leaves start()
\* before the statement's assignment is made.
StartStepFault ==
    /\ startStatus = "running"
    /\ startPc \in 1..Len(StartOrder)
    /\ StartOrder[startPc] # "notify_started"
    /\ StartOrder[startPc] = "setup_profiler" => _setup_profiler
    /\ StartOrder[startPc] = "run" => rpcState = "created"
    /\ Raise
    /\ UNCHANGED <<handleVars, configVars, cluster_member, schedulerState,
                   expirationState, rpcState, endpoints, notified, stopVars,
                   rpcVars>>

(***************************************************************************)
(* stop(graceful)                                                          *)
(***************************************************************************)
\* A plausible slip: the RPC server is stopped first.
StopOrderRpcFirst == << "rpc_server", "scheduler", "expiration_policy" >>

\* A plausible slip: the subsystems are stopped last-started first.
StopOrderReversed == << "rpc_server", "expiration_policy", "scheduler" >>

\* The three guarded statements of stop(), in program order.
StopOrder == << "scheduler", "expiration_policy", "rpc_server" >>

\* A plausible slip: the handle is not tested before it is used.
PresentUnchecked(handle) == TRUE

\* "if self._scheduler:" and its two siblings: the handle is set.
Present(handle) == handle # None

\* A plausible slip: stop() is always told to be graceful.
GracefulArgAlways(g) == TRUE

\* The graceful value stop() hands to a subsystem's stop operation.
GracefulArg(g) == g

\* A plausible slip: stop() deletes the field once its subsystem is stopped
\* (del self._scheduler), so that the next stop() finds no field to test.
HandleDeleted(handle) == "deleted"

\* stop() leaves the handle fields as they are.
HandleAfterStop(handle) == handle

\* The handles start() hands out.
IsHandle(handle) == handle \in {"scheduler", "expiration_policy_tg", "rpc_server"}

\* The stop contract of a subsystem: stopped, and stopping it again or
\* stopping one that never ran changes nothing.
SubsystemStop(state) == "stopped"

Snapshot ==
    [scheduler |-> _scheduler, expiration_policy_tg |-> _expiration_policy_tg,
     rpc_server |-> _rpc_server, schedulerState |-> schedulerState,
     expirationState |-> expirationState, rpcState |-> rpcState,
     endpoints |-> endpoints, cluster_member |-> cluster_member]

\* start() is not between two statements: it was never called, has ended, or
\* is inside the blocking run() call.
StartQuiescent ==
    \/ startStatus \in {"new", "returned", "raised"}
    \/ AtStep("run") /\ rpcState # "created"

AtStop(name) ==
    /\ stopPc = "steps"
    /\ stopIdx \in 1..Len(StopOrder)
    /\ StopOrder[stopIdx] = name

\* The statement completed: control moves to the next one, or stop() returns.
StopAdvance ==
    /\ stopIdx' = stopIdx + 1
    /\ stopPc' = IF stopIdx = Len(StopOrder) THEN "returned" ELSE "steps"

\* An exception leaves stop(): the statements after it do not run.
StopRaise ==
    /\ stopPc' = "raised"
    /\ UNCHANGED stopIdx

\* When stop() returns, the state it leaves is recorded.
RecordReturn ==
    afterStop' = IF stopPc' = "returned" THEN Append(afterStop, Snapshot')
                                          ELSE afterStop

Invoked(target) == Append(stopLog, [target |-> target, graceful |-> GracefulArg(graceful)])

Stop ==
    /\ stopPc \in {"idle", "returned", "raised"}
    /\ stopCount < MaxStops
    /\ StartQuiescent
    /\ \E g \in BOOLEAN: graceful' = g
    /\ stopPc' = "super_stop"
    /\ stopIdx' = 1
    /\ stopLog' = <<>>
    /\ stopCount' = stopCount + 1
    /\ UNCHANGED <<afterStop, startVars, handleVars, configVars,
                   cluster_member, schedulerState, expirationState, rpcState,
                   endpoints, notified, rpcVars>>

\* super(EngineServer, self).stop(graceful)
SuperStop ==
    /\ stopPc = "super_stop"
    /\ stopPc' = "steps"
    /\ UNCHANGED <<stopIdx, graceful, stopLog, stopCount, afterStop, startVars,
                   handleVars, configVars, cluster_member, schedulerState,
                   expirationState, rpcState, endpoints, notified, rpcVars>>

\* if self._scheduler: scheduler.stop_scheduler(self._scheduler, graceful)
StopScheduler ==
    /\ AtStop("scheduler")
    /\ IF ~Present(_scheduler)
          THEN /\ StopAdvance
               /\ UNCHANGED <<_scheduler, schedulerState, stopLog>>
          ELSE /\ stopLog' = Invoked("scheduler")
               /\ IF IsHandle(_scheduler)
                     THEN /\ schedulerState' = SubsystemStop(schedulerState)
                          /\ _scheduler' = HandleAfterStop(_scheduler)
                          /\ StopAdvance
                     ELSE /\ StopRaise
                          /\ UNCHANGED <<_scheduler, schedulerState>>
    /\ UNCHANGED <<graceful, stopCount, startVars, _expiration_policy_tg,
                   _rpc_server, configVars, cluster_member,
                   expirationState, rpcState, endpoints, notified, rpcVars>>
    /\ RecordReturn

\* if self._expiration_policy_tg: self._expiration_policy_tg.stop(graceful)
StopExpirationPolicy ==
    /\ AtStop("expiration_policy")
    /\ IF ~Present(_expiration_policy_tg)
          THEN /\ StopAdvance
               /\ UNCHANGED <<_expiration_policy_tg, expirationState, stopLog>>
          ELSE /\ stopLog' = Invoked("expiration_policy")
               /\ IF IsHandle(_expiration_policy_tg)
                     THEN /\ expirationState' = SubsystemStop(expirationState)
                          /\ _expiration_policy_tg' =
                                 HandleAfterStop(_expiration_policy_tg)
                          /\ StopAdvance
                     ELSE /\ StopRaise
                          /\ UNCHANGED <<_expiration_policy_tg, expirationState>>
    /\ UNCHANGED <<graceful, stopCount, startVars, _scheduler, _rpc_server,
                   configVars, cluster_member, schedulerState, rpcState,
                   endpoints, notified, rpcVars>>
    /\ RecordReturn

\* if self._rpc_server: self._rpc_server.stop(graceful)
\* A graceful stop returns once the call being handled has completed.
StopRpcServer ==
    /\ AtStop("rpc_server")
    /\ IF ~Present(_rpc_server)
          THEN /\ StopAdvance
               /\ UNCHANGED <<_rpc_server, rpcState, stopLog>>
          ELSE /\ stopLog' = Invoked("rpc_server")
               /\ IF IsHandle(_rpc_server)
                     THEN /\ GracefulArg(graceful) => inflight = <<>>
                          /\ rpcState' = SubsystemStop(rpcState)
                          /\ _rpc_server' = HandleAfterStop(_rpc_server)
                          /\ StopAdvance
                     ELSE /\ StopRaise
                          /\ UNCHANGED <<_rpc_server, rpcState>>
    /\ UNCHANGED <<graceful, stopCount, startVars, _scheduler,
                   _expiration_policy_tg, configVars, cluster_member,
                   schedulerState, expirationState, endpoints, notified,
                   rpcVars>>
    /\ RecordReturn

\* The handle the statement stop() is at would stop.
HandleAt(name) ==
    CASE name = "scheduler" -> _scheduler
      [] name = "expiration_policy" -> _expiration_policy_tg
      [] name = "rpc_server" -> _rpc_server

\* The stop operation of a subsystem raises: stop() has no handler around it,
\* so the exception leaves stop().
SubsystemStopFault ==
    /\ stopPc = "steps"
    /\ stopIdx \in 1..Len(StopOrder)
    /\ Present(HandleAt(StopOrder[stopIdx]))
    /\ stopLog' = Invoked(StopOrder[stopIdx])
    /\ StopRaise
    /\ UNCHANGED <<afterStop, graceful, stopCount, startVars, handleVars, configVars,
                   cluster_member, schedulerState, expirationState, rpcState,
                   endpoints, notified, rpcVars>>

(***************************************************************************)
(* The serve loop                                                          *)
(***************************************************************************)
\* A plausible slip: a pooled executor is chosen.
executor_threading == "threading"

\* run(executor='blocking')
executor == "blocking"

\* The executor contract: the blocking executor runs a handler in the serving
\* thread and takes the next message when the handler has returned; a pooled
\* executor hands each message to a free worker.
CanDispatch(mode, running) == IF mode = "blocking" THEN running = 0 ELSE TRUE

\* A plausible slip: a fault of the engine is caught and logged.
HandlerSwallowsFault(c, o) ==
    [done |-> TRUE,
     outcome |-> IF o.kind = "fault" THEN [kind |-> "return", value |-> None] ELSE o]

\* A plausible slip: a faulted engine invocation is tried once more.
HandlerRetriesFault(c, o) ==
    [done |-> ~(o.kind = "fault" /\ c.invocations = 1), outcome |-> o]

\* "return self.engine.<method>(...)": the handler ends as the engine
\* invocation ended, with its value or its fault.
HandlerReturn(c, o) == [done |-> TRUE, outcome |-> o]

\* A plausible slip: the engine waits for the reply to a call it sends to
\* its own endpoint.
ReentrantSendSync == "call"

\* How the engine, while handling a call, sends a further call to the
\* endpoint it is served by: without waiting for the reply.
ReentrantSend == "cast"

\* A plausible slip: a handler drops the server handle.
HandlerEffectClearsServer(self) == [self EXCEPT !.rpc_server = None]

\* The attributes of self after a handler has run: no handler assigns one.
HandlerEffect(self) == self

SelfFields ==
    [engine |-> engine, scheduler |-> _scheduler,
     expiration_policy_tg |-> _expiration_policy_tg, rpc_server |-> _rpc_server,
     cluster_member |-> cluster_member]

RemoveAt(seq, k) == [i \in 1..(Len(seq) - 1) |-> IF i < k THEN seq[i] ELSE seq[i + 1]]

\* A client sends a call; it reaches the queue the serving server listens on.
IssueUpTo(n) ==
    /\ rpcState = "serving"
    /\ issued < n
    /\ issued' = issued + 1
    /\ pending' = pending + 1
    /\ UNCHANGED <<inflight, lastReply, storeVars, lifecycleVars>>

Issue == IssueUpTo(MaxCalls)

\* The client of the state-machine scenario, which sends more calls.
IssueScenario == IssueUpTo(MaxScenarioCalls)

\* The server takes a message and calls the endpoint method, which logs the
\* call and invokes the engine.
Dispatch ==
    /\ rpcState = "serving"
    /\ pending > 0
    /\ CanDispatch(executor, Len(inflight))
    /\ \E i \in 1..Len(Requests):
          LET h == Endpoint(Ctx, Requests[i]) IN
          inflight' = Append(inflight, [req |-> Requests[i], log |-> h.log,
                                        call |-> h.call, invocations |-> 1,
                                        sent |-> 0, awaiting |-> FALSE])
    /\ pending' = pending - 1
    /\ LET self == HandlerEffect(SelfFields) IN
          /\ engine' = self.engine
          /\ _scheduler' = self.scheduler
          /\ _expiration_policy_tg' = self.expiration_policy_tg
          /\ _rpc_server' = self.rpc_server
          /\ cluster_member' = self.cluster_member
    /\ UNCHANGED <<issued, lastReply, storeVars, runVars>>

\* The engine, inside an invocation, sends a further call to the endpoint.
EngineReenters ==
    /\ rpcState = "serving"
    /\ issued < MaxCalls
    /\ \E k \in 1..Len(inflight):
          /\ ~inflight[k].awaiting
          /\ inflight' = [inflight EXCEPT ![k].sent = @ + 1,
                                           ![k].awaiting = (ReentrantSend = "call")]
    /\ issued' = issued + 1
    /\ pending' = pending + 1
    /\ UNCHANGED <<lastReply, storeVars, lifecycleVars>>

\* The engine invocation of a running handler returns or raises.
EngineCompletes ==
    /\ \E k \in 1..Len(inflight), j \in 1..Len(EngineOutcomes):
          LET c == inflight[k]
              e == Engine(c.call, wfState, actionState, EngineOutcomes[j])
              r == HandlerReturn(c, e.outcome) IN
          /\ ~c.awaiting
          /\ wfState' = e.wf
          /\ actionState' = e.act
          /\ wfHistory' = IF e.wf # wfState THEN Append(wfHistory, e.wf) ELSE wfHistory
          /\ IF r.done
                THEN /\ inflight' = [i \in 1..(Len(inflight) - 1) |->
                                        [RemoveAt(inflight, k)[i] EXCEPT !.awaiting = FALSE]]
                     /\ lastReply' = << [req |-> c.req,
                                         invocations |-> c.invocations,
                                         sent |-> c.sent,
                                         engineOutcome |-> e.outcome,
                                         outcome |-> r.outcome,
                                         wfBefore |-> wfState, wfAfter |-> e.wf,
                                         actBefore |-> actionState,
                                         actAfter |-> e.act] >>
                ELSE /\ inflight' = [inflight EXCEPT ![k].invocations = @ + 1]
                     /\ UNCHANGED lastReply
    /\ UNCHANGED <<pending, issued, lifecycleVars>>

(***************************************************************************)
(* Specifications                                                          *)
(***************************************************************************)
Init ==
    /\ _scheduler = None
    /\ _expiration_policy_tg = None
    /\ _rpc_server = None
    /\ _setup_profiler \in BOOLEAN
    /\ engine = "engine"
    /\ cluster_member = FALSE
    /\ startStatus = "new"
    /\ startPc = 0
    /\ startLog = <<>>
    /\ startFault = None
    /\ schedulerState = "absent"
    /\ expirationState = "absent"
    /\ rpcState = "absent"
    /\ endpoints = {}
    /\ notified = 0
    /\ stopPc = "idle"
    /\ stopIdx = 0
    /\ graceful = FALSE
    /\ stopLog = <<>>
    /\ stopCount = 0
    /\ afterStop = <<>>
    /\ pending = 0
    /\ issued = 0
    /\ inflight = <<>>
    /\ lastReply = <<>>
    /\ wfState = "NONE"
    /\ actionState = "NONE"
    /\ wfHistory = <<>>

Next ==
    \/ Start
    \/ SuperStart
    \/ SetupDb
    \/ SchedulerStart
    \/ ExpirationSetup
    \/ SetupProfiler
    \/ GetRpcServer
    \/ RegisterEndpoint
    \/ Run
    \/ RunReturns
    \/ NotifyStarted
    \/ StartStepFault
    \/ Stop
    \/ SuperStop
    \/ StopScheduler
    \/ StopExpirationPolicy
    \/ StopRpcServer
    \/ Issue
    \/ Dispatch
    \/ EngineReenters
    \/ EngineCompletes

\* The service with collaborators whose stop operations return normally.
Spec == Init /\ [][Next]_vars

\* The service started without a fault and not stopped, serving the client
\* of the state-machine scenario.
NextScenario ==
    \/ Start
    \/ SuperStart
    \/ SetupDb
    \/ SchedulerStart
    \/ ExpirationSetup
    \/ SetupProfiler
    \/ GetRpcServer
    \/ RegisterEndpoint
    \/ Run
    \/ IssueScenario
    \/ Dispatch
    \/ EngineCompletes

SpecScenario == Init /\ [][NextScenario]_vars

\* The service with a serving thread that takes the next message whenever
\* it is free and an engine whose every invocation returns or raises.
SpecLive == Init /\ [][Next]_vars /\ WF_vars(Dispatch) /\ WF_vars(EngineCompletes)

NextShutdownFault == Next \/ SubsystemStopFault

\* The service with collaborators whose stop operations may raise.
SpecShutdownFault == Init /\ [][NextShutdownFault]_vars

(***************************************************************************)
(* Properties                                                              *)
(***************************************************************************)
InFlight == {inflight[k] : k \in 1..Len(inflight)}

\* C1: single-flight dispatch.  The engine-facing dispatches of two calls
\* never overlap: at most one handler is inside an engine invocation, so a
\* call is dispatched only after the one before it has returned or faulted.
C1_SingleFlight == Len(inflight) <= 1

\* A second call waits in the queue while the first is inside the engine.
C1_Witness == Len(inflight) = 1 /\ pending >= 1

\* The parameters of each operation after the request context, in the order
\* the claim lists them.
ClaimedParams(op) ==
    CASE op = "start_workflow" ->
            <<"workflow_identifier", "workflow_input", "description", "params">>
      [] op = "start_action" ->
            <<"action_name", "action_input", "description", "params">>
      [] op = "on_action_complete" ->
            <<"action_ex_id", "result_data", "result_error", "wf_action">>
      [] op = "pause_workflow" -> <<"execution_id">>
      [] op = "rerun_workflow" -> <<"task_ex_id", "reset", "env">>
      [] op = "resume_workflow" -> <<"wf_ex_id", "env">>
      [] op = "stop_workflow" -> <<"execution_id", "state", "message">>
      [] op = "rollback_workflow" -> <<"execution_id">>

\* The defaults the claim states: reset=true, env=none, message=none.
ClaimedDefault(name) == IF name = "reset" THEN "True" ELSE None

\* The arguments A of a request, omitted optional ones as their defaults.
ArgumentsOf(req) ==
    [i \in 1..Len(ClaimedParams(req.op)) |->
        LET name == ClaimedParams(req.op)[i] IN
        IF name \in DOMAIN req.kwargs THEN req.kwargs[name]
                                      ELSE ClaimedDefault(name)]

\* C2 as stated: the engine method of the same name is invoked with exactly
\* the arguments A of the call, each passed on as it came.
C2_ExactArguments ==
    \A c \in InFlight:
        /\ c.call.method = c.req.op
        /\ c.call.args = ArgumentsOf(c.req)
        /\ c.call.kwargs = EmptyMap

\* C2, amended: the engine method of the same name is invoked with the
\* call's argument values unmodified, positionally and in the order of the
\* handler's parameters, omitted optional arguments as their defaults;
\* except that start_workflow and start_action pass the entries of params as
\* keyword arguments after the three leading arguments, and
\* on_action_complete passes result_data and result_error as one
\* Result(data, error) value.
C2_PassThrough ==
    \A c \in InFlight:
        LET a == ArgumentsOf(c.req) IN
        /\ c.call.method = c.req.op
        /\ c.req.op \in {"start_workflow", "start_action"} =>
              /\ c.call.args = <<a[1], a[2], a[3]>>
              /\ c.call.kwargs = c.req.kwargs["params"]
        /\ c.req.op = "on_action_complete" =>
              /\ c.call.args = <<a[1], Result(a[2], a[3]), a[4]>>
              /\ c.call.kwargs = EmptyMap
        /\ c.req.op \notin {"start_workflow", "start_action", "on_action_complete"} =>
              /\ c.call.args = a
              /\ c.call.kwargs = EmptyMap

\* rerun_workflow is inside the engine with a reset flag the caller cleared.
C2_Witness ==
    \E c \in InFlight:
        /\ c.req.op = "rerun_workflow"
        /\ "reset" \in DOMAIN c.req.kwargs
        /\ c.req.kwargs["reset"] = "False"

\* C3: outcome pass-through without retry.  Every call causes exactly one
\* engine invocation, and the call ends as that invocation ended: with the
\* value it returned or with the fault it raised.
C3_OutcomePassThrough ==
    /\ \A c \in InFlight: c.invocations = 1
    /\ lastReply # <<>> =>
          /\ lastReply[1].invocations = 1
          /\ lastReply[1].outcome = lastReply[1].engineOutcome

\* A call has ended with the fault its engine invocation raised.
C3_Witness == lastReply # <<>> /\ lastReply[1].engineOutcome.kind = "fault"

\* C4: a stop_workflow call whose target state is neither SUCCESS nor ERROR
\* never reaches the engine.
C4_IllegalStopRejected ==
    \A c \in InFlight:
        c.req.op = "stop_workflow" => c.req.kwargs["state"] \in {"SUCCESS", "ERROR"}

Targets == {"scheduler", "expiration_policy", "rpc_server"}
StoppedTargets == {stopLog[i].target : i \in 1..Len(stopLog)}
PresentTargets == {t \in Targets : HandleAt(t) # None}
SubsystemStateOf(t) ==
    CASE t = "scheduler" -> schedulerState
      [] t = "expiration_policy" -> expirationState
      [] t = "rpc_server" -> rpcState

\* start() never ran, or an exception left it.
PartialStart == startStatus \in {"new", "raised"}

\* C5: defensive shutdown after a partial start.  When start() never ran or
\* failed at some step, stop(graceful) does not raise, invokes no stop
\* operation for an empty handle, and has stopped every subsystem whose
\* handle is present when it returns.
C5_DefensiveStop ==
    PartialStart =>
        /\ stopPc # "raised"
        /\ StoppedTargets \subseteq PresentTargets
        /\ stopPc = "returned" =>
              /\ StoppedTargets = PresentTargets
              /\ \A t \in PresentTargets: SubsystemStateOf(t) = "stopped"

\* stop() has returned after a start() that failed with the scheduler handle
\* set and the RPC server handle empty.
C5_Witness ==
    /\ startStatus = "raised"
    /\ stopPc = "returned"
    /\ _scheduler # None
    /\ _rpc_server = None

C7_NonAbortingStop ==
    stopPc \in {"returned", "raised"} => PresentTargets \subseteq StoppedTargets

Completed == {startLog[i] : i \in 1..Len(startLog)}

\* C8: readiness notification.  start() emits the 'started' notification at
\* most once, and only after store initialisation, scheduler start,
\* expiration-sweep start, endpoint registration and the serve-loop step
\* have all succeeded; a start() that failed has emitted none.
C8_Readiness ==
    /\ notified <= 1
    /\ notified >= 1 =>
          {"setup_db", "scheduler_start", "expiration_setup",
           "register_endpoint", "run"} \subseteq Completed
    /\ startStatus = "raised" => notified = 0

\* The notification has been emitted.
C8_Witness == notified = 1

\* The start steps of the claim, in the claimed order.
ClaimedStartOrder ==
    <<"setup_db", "scheduler_start", "expiration_setup", "register_endpoint", "run">>

\* C9: start ordering.  The steps of start() occur in the order store
\* initialisation, scheduler start, expiration-sweep start, endpoint
\* registration, serve loop, none beginning before the ones before it have
\* completed; the serving server accepts a call only with the endpoint
\* registered and both background subsystems started.
C9_StartOrdering ==
    /\ schedulerState # "absent" => "setup_db" \in Completed
    /\ expirationState # "absent" => "scheduler_start" \in Completed
    /\ endpoints # {} => "expiration_setup" \in Completed
    /\ rpcState = "serving" => "register_endpoint" \in Completed
    /\ \A i \in 1..Len(ClaimedStartOrder): \A j \in 1..Len(ClaimedStartOrder):
          (i < j /\ ClaimedStartOrder[j] \in Completed) =>
              /\ ClaimedStartOrder[i] \in Completed
              /\ \E m \in 1..Len(startLog): \E n \in 1..Len(startLog):
                    /\ m < n
                    /\ startLog[m] = ClaimedStartOrder[i]
                    /\ startLog[n] = ClaimedStartOrder[j]
    /\ (inflight # <<>> \/ lastReply # <<>>) =>
          /\ endpoints # {}
          /\ {"scheduler_start", "expiration_setup", "register_endpoint"}
                 \subseteq Completed

\* The serving server has accepted a call.
C9_Witness == rpcState = "serving" /\ Len(inflight) = 1

Rank(t) ==
    CASE t = "scheduler" -> 1
      [] t = "expiration_policy" -> 2
      [] t = "rpc_server" -> 3

\* C10: stop steps and graceful threading.  stop(graceful) stops the
\* scheduler first, then the expiration sweep, then the RPC server, and
\* hands the caller's graceful value unchanged to each stop operation.
C10_StopOrder ==
    /\ \A i \in 1..Len(stopLog): \A j \in 1..Len(stopLog):
          i < j => Rank(stopLog[i].target) < Rank(stopLog[j].target)
    /\ \A i \in 1..Len(stopLog): stopLog[i].graceful = graceful
    /\ stopPc = "returned" => PresentTargets \subseteq StoppedTargets

\* A graceful stop() has invoked all three stop operations.
C10_Witness == Len(stopLog) = 3 /\ graceful /\ stopPc = "returned"

\* The start() statement that brings up each subsystem stop() stops.
StartedBy(t) ==
    CASE t = "scheduler" -> "scheduler_start"
      [] t = "expiration_policy" -> "expiration_setup"
      [] t = "rpc_server" -> "get_rpc_server"

PositionIn(seq, x) == CHOOSE i \in 1..Len(seq): seq[i] = x
StopPosition(t) == CHOOSE i \in 1..Len(stopLog): stopLog[i].target = t

\* Both subsystems were brought up by start() and stopped by this stop().
UpAndStopped(a, b) ==
    /\ {a, b} \subseteq StoppedTargets
    /\ {StartedBy(a), StartedBy(b)} \subseteq Completed

\* C11 as stated: stop() tears down in the reverse of the start order, a
\* subsystem started later being stopped before one started earlier.
C11_ReverseTeardown ==
    \A a \in Targets: \A b \in Targets:
        (UpAndStopped(a, b)
           /\ PositionIn(startLog, StartedBy(a)) < PositionIn(startLog, StartedBy(b)))
        => StopPosition(b) < StopPosition(a)

\* C11, amended: stop() tears the subsystems down in the order in which
\* start() brought them up: a subsystem started earlier (the scheduler, then
\* the expiration sweep) is stopped before one started later (the RPC
\* server).
C11_SameOrderTeardown ==
    \A a \in Targets: \A b \in Targets:
        (UpAndStopped(a, b)
           /\ PositionIn(startLog, StartedBy(a)) < PositionIn(startLog, StartedBy(b)))
        => StopPosition(a) < StopPosition(b)

\* stop() has stopped all three subsystems of a service that was serving.
C11_Witness ==
    /\ "run" \in Completed \/ rpcState = "stopped"
    /\ Len(stopLog) = 3
    /\ {"scheduler_start", "expiration_setup", "get_rpc_server"} \subseteq Completed

\* The statements of start() whose failure the claim calls a startup failure.
RequiredSteps == {"setup_db", "scheduler_start", "expiration_setup"}

\* C12: startup failure is fatal.  When store initialisation or the start
\* of the scheduler or of the expiration sweep fails, the fault leaves
\* start(), no later statement of start() runs (no RPC server is created,
\* registered or served, nothing is announced), and no call is ever served.
C12_StartupFailureFatal ==
    startFault \in RequiredSteps =>
        /\ startStatus = "raised"
        /\ startFault \notin Completed
        /\ Completed \cap {"get_rpc_server", "register_endpoint", "run",
                           "notify_started"} = {}
        /\ _rpc_server = None
        /\ rpcState = "absent"
        /\ endpoints = {}
        /\ notified = 0
        /\ inflight = <<>> /\ lastReply = <<>>
        /\ startFault = "setup_db" => _scheduler = None
        /\ startFault \in {"setup_db", "scheduler_start"} =>
              _expiration_policy_tg = None

\* start() has failed at store initialisation and stop() has since run.
C12_Witness == startFault = "setup_db" /\ stopPc = "returned"

\* C13 as stated: a failure of the profiler setup does not end start().
C13_ProfilerNonFatal == startFault = "setup_profiler" => startStatus # "raised"

\* C13, amended: observability wiring is fatal.  When the profiler setup
\* fails during start(), the fault leaves start(): no RPC server is created,
\* no endpoint is registered, the serve loop is not entered and nothing is
\* announced, while the scheduler and the expiration sweep stay started.
C13_ProfilerFatal ==
    startFault = "setup_profiler" =>
        /\ _setup_profiler
        /\ startStatus = "raised"
        /\ Completed \cap {"setup_profiler", "get_rpc_server",
                           "register_endpoint", "run", "notify_started"} = {}
        /\ _rpc_server = None
        /\ rpcState = "absent"
        /\ endpoints = {}
        /\ notified = 0
        /\ inflight = <<>> /\ lastReply = <<>>
        /\ _scheduler # None /\ _expiration_policy_tg # None

\* start() has failed at the profiler setup.
C13_Witness == startFault = "setup_profiler" /\ startStatus = "raised"

\* The results that handlers inside the engine have handed to it.
HandedResults ==
    {c.call.args[2] : c \in {d \in InFlight : d.req.op = "on_action_complete"}}

CompletionReported ==
    /\ lastReply # <<>>
    /\ lastReply[1].req.op = "on_action_complete"
    /\ lastReply[1].actBefore = "RUNNING"
    /\ (lastReply[1].req.kwargs["result_data"] = None)
          # (lastReply[1].req.kwargs["result_error"] = None)

\* C15: completion outcome.  For a RUNNING action execution,
\* on_action_complete with exactly one of (data, error) yields an execution
\* that reports that one and only that one: data gives state SUCCESS carrying
\* the data and no error, error gives state ERROR carrying the error and no
\* data; and the is_workflow_action flag reaches the engine unchanged, where
\* it selects workflow-level or primitive-action completion handling.
C15_CompletionOutcome ==
    /\ \A c \in InFlight:
          c.req.op = "on_action_complete" =>
              c.call.args[3] = c.req.kwargs["wf_action"]
    /\ CompletionReported =>
          LET kw == lastReply[1].req.kwargs
              out == lastReply[1].outcome IN
          /\ out.kind = "return"
          /\ out.value.level = (IF kw["wf_action"] = "True" THEN "workflow" ELSE "action")
          /\ kw["result_data"] # None =>
                /\ out.value.state = "SUCCESS"
                /\ lastReply[1].actAfter = "SUCCESS"
                /\ out.value.data = kw["result_data"]
                /\ out.value.error = None
          /\ kw["result_error"] # None =>
                /\ out.value.state = "ERROR"
                /\ lastReply[1].actAfter = "ERROR"
                /\ out.value.error = kw["result_error"]
                /\ out.value.data = None

\* A failure was reported for the running action execution.
C15_Witness ==
    /\ CompletionReported
    /\ lastReply[1].req.kwargs["result_error"] = "boom"
    /\ lastReply[1].outcome.kind = "return"
    /\ lastReply[1].outcome.value.state = "ERROR"

\* The source states the claim gives for each workflow operation.
ClaimedSource(op) ==
    CASE op = "pause_workflow" -> {"RUNNING"}
      [] op = "resume_workflow" -> {"PAUSED"}
      [] op = "stop_workflow" -> {"RUNNING", "PAUSED"}
      [] op = "rollback_workflow" -> {"ERROR"}

\* The resulting state the claim gives for a request.
ClaimedResulting(req) ==
    CASE req.op = "pause_workflow" -> "PAUSED"
      [] req.op = "resume_workflow" -> "RUNNING"
      [] req.op = "stop_workflow" -> req.kwargs["state"]
      [] req.op = "rollback_workflow" -> "RUNNING"

ScenarioStates == <<"RUNNING", "PAUSED", "RUNNING", "ERROR", "RUNNING">>

\* C16: execution state machine.  A workflow operation issued on an
\* execution in a valid source state moves it to the resulting state of the
\* table: start_workflow creates RUNNING, pause_workflow RUNNING to PAUSED,
\* resume_workflow PAUSED to RUNNING, stop_workflow RUNNING or PAUSED to the
\* SUCCESS or ERROR the caller gave, rollback_workflow ERROR to RUNNING.  An
\* operation issued in a state that is not a valid source state is forwarded
\* to the engine all the same and ends as an engine fault, the state of the
\* execution as it was.
C16_StateMachine ==
    lastReply # <<>> =>
        LET l == lastReply[1]
            op == l.req.op IN
        /\ (op = "start_workflow" /\ l.wfBefore = "NONE") =>
              /\ l.outcome.kind = "return"
              /\ l.outcome.value.state = "RUNNING"
              /\ l.wfAfter = "RUNNING"
        /\ op \in {"pause_workflow", "resume_workflow", "stop_workflow",
                    "rollback_workflow"} =>
              /\ l.invocations = 1
              /\ (l.wfBefore \in ClaimedSource(op)
                    /\ ClaimedResulting(l.req) \in {"RUNNING", "PAUSED", "SUCCESS", "ERROR"}
                    /\ (op = "stop_workflow" =>
                            ClaimedResulting(l.req) \in {"SUCCESS", "ERROR"})) =>
                    /\ l.outcome.kind = "return"
                    /\ l.outcome.value.state = ClaimedResulting(l.req)
                    /\ l.wfAfter = ClaimedResulting(l.req)
              /\ l.wfBefore \notin ClaimedSource(op) =>
                    /\ l.outcome.kind = "fault"
                    /\ l.wfAfter = l.wfBefore

\* start, pause, resume, stop(ERROR), rollback have been served in this
\* order, and a resume_workflow issued after them, on the execution that is
\* RUNNING again, has come back as a fault.
C16_Witness ==
    /\ wfHistory = ScenarioStates
    /\ lastReply # <<>>
    /\ lastReply[1].req.op = "resume_workflow"
    /\ lastReply[1].wfBefore = "RUNNING"
    /\ lastReply[1].outcome.kind = "fault"

\* The calls received by the server whose handler has ended.
CompletedCalls == issued - pending - Len(inflight)

ClaimedLog(req) == <<req.op, Ctx>> \o ArgumentsOf(req)

\* C18: log before dispatch.  For every operation one log record naming the
\* operation and carrying all of the call's arguments has been written when
\* the engine method is invoked, whether or not the invocation then faults.
C18_LogAllArguments ==
    \A c \in InFlight:
        /\ Len(c.log) = Len(ClaimedLog(c.req))
        /\ \A i \in 1..Len(c.log): c.log[i] = ClaimedLog(c.req)[i]

\* C19: handlers leave service state unchanged.  Handling an RPC operation,
\* whether it returns or faults, leaves the engine reference, the three
\* handles and the cluster membership record as they were; only steps of
\* start() and stop() change them.
C19_HandlersFrame ==
    [][ /\ (inflight' # inflight \/ lastReply' # lastReply) => UNCHANGED selfVars
        /\ selfVars' # selfVars => (startVars' # startVars \/ stopVars' # stopVars)
      ]_vars

\* A call has been handled and ended in a fault on the started service.
C19_Witness ==
    /\ lastReply # <<>>
    /\ lastReply[1].outcome.kind = "fault"
    /\ engine = "engine"
    /\ _scheduler # None /\ _expiration_policy_tg # None /\ _rpc_server # None
    /\ cluster_member

\* C20: readiness while serving.  After a start() whose every step up to
\* entering the serve loop succeeded, the readiness notification is emitted
\* while the service is serving inbound calls, no stop() having been called:
\* the step that emits it is taken with the RPC server serving.
C20_ReadyWhileServing ==
    [][notified' # notified => (rpcState = "serving" /\ stopCount = 0)]_vars

====
